---- MODULE Spec2Model ----
(***************************************************************************)
(* The metered chat gateway of fb-ChargeAI: the sliding-window rate        *)
(* limiter (src/lib/rate-limit.ts) and the chat route                      *)
(* (src/app/api/chat/route.ts).                                            *)
(*                                                                         *)
(* The specifications share the variables:                                 *)
(*   SpecRL          concurrent rateLimit() calls, one store command per   *)
(*                   step                                                  *)
(*   SpecStream      the 'data' / 'end' callbacks of one streaming         *)
(*                   response; SpecStreamLive adds the fairness of the     *)
(*                   event loop                                            *)
(*   Spec            the POST handlers, one step per await;                *)
(*                   SpecDoubleSpend starts them with an account that can  *)
(*                   pay for one completion only                           *)
(*   SpecKey         the cache key over request bodies of every shape      *)
(*   SpecWallet      getCachedWallet over time                             *)
(* Time is counted in whole seconds, money in thousandths (3 decimals).    *)
(***************************************************************************)
EXTENDS Integers, Sequences, FiniteSets, TLC

VARIABLES
    now,        \* wall clock, seconds
    zset,       \* counter store: user -> (score -> number of members)
    zexp,       \* counter store: user -> expiry time of the key, or NoExpiry
    rl,         \* rateLimit() invocations in flight: proc -> record
    admitted,   \* history: user -> (now as the call read it -> number of calls the count let through,
                \* of the calls whose commands all succeeded)
    decided,    \* history: user -> (clock when the call returned -> number of calls the count let through)
    calls,      \* number of rateLimit() invocations started
    dbBalance,  \* identity / ledger store: user -> authoritative balance
    ledger,     \* ledger store: the transactions written, in order
    sIn,        \* streaming response: the upstream chunks that have arrived, in order
    endpc,      \* streaming response: where the 'end' callback is
    lastChunk,  \* streaming response: the variable lastChunk of POST
    out,        \* streaming response: what writer.write() accepted, in call order
    pend,       \* streaming response: the unresolved writes, each with what awaits it
    wstate,     \* streaming response: "open", or "closing" once writer.close() was called
    lost,       \* streaming response: the items whose write was refused or never issued
    walletCache,\* route.ts: the in-process Map walletCache: api key -> snapshot
    respCache,  \* redis: cache key -> stored completion response
    redisWallet,\* redis: the keys wallet:<api key> written on debit
    req,        \* the requests being handled: slot -> record
    started,    \* number of requests received so far
    hist        \* history: whether two requests ever overlapped, the completions answered
                \* so far, the sum of their costs, and what the completions that debited
                \* reported, in order

rlVars == <<zset, zexp, rl, admitted, decided, calls>>
clockVars == <<now>>
dbVars == <<dbBalance, ledger>>
stVars == <<sIn, endpc, lastChunk, out, pend, wstate, lost>>
gwVars == <<walletCache, respCache, redisWallet, req, started, hist>>
vars == <<now, zset, zexp, rl, admitted, decided, calls, dbBalance, ledger,
          sIn, endpc, lastChunk, out, pend, wstate, lost,
          walletCache, respCache, redisWallet, req, started, hist>>

----------------------------------------------------------------------------
(* Bounds of the model *)

MaxCalls == 2
MaxChunks == 2
MaxRequests == 2

----------------------------------------------------------------------------
(* The stores behind the gateway: @/lib/pricing and @/lib/mongodb are not part of the   *)
(* sources at hand and are modelled from their interface in the specification.          *)

Users == {"u1", "u2"}
\* an account holds 10.000, or 0.040: less than one completion costs
InitialBalances == {10000, 40}

\* pricing: a pure function of model and total tokens; gpt-4o costs 0.050 per 100 tokens
calculateCost(model, totalTokens) ==
    (totalTokens * (IF model = "gpt-4o" THEN 500 ELSE 1000)) \div 1000

\* updateWalletBalance(userId, delta, description): the balance after the delta
BalanceAfter(bal, userId, delta) == [bal EXCEPT ![userId] = @ + delta]

\* updateWalletBalance(userId, delta, description): the ledger with the new transaction
LedgerAfter(led, userId, delta) ==
    Append(led, [accountId |-> userId, delta |-> delta])

\* getWalletByApiKey(apiKey): the account of a known key with its current balance
KeyOwner == [k \in {"k1"} |-> "u1"]
NoWallet == [userId |-> "none", balance |-> 0]
getWalletByApiKey(apiKey, bal) ==
    IF apiKey \in DOMAIN KeyOwner
    THEN [userId |-> KeyOwner[apiKey], balance |-> bal[KeyOwner[apiKey]]]
    ELSE NoWallet

----------------------------------------------------------------------------
(* src/lib/rate-limit.ts *)

RateLimitRequests == 60
RateLimitWindow == 60
FailOpenReset == 3600

RLProcs == {"p1", "p2"}
NoExpiry == -1
\* results[1][1] when the reply to ZCARD is an error: undefined
Undefined == -1
\* RATE_LIMIT.requests - undefined: not a number
NaN == -2
\* the commands queued on the pipeline, in order
PipelineCommands == {"purge", "zcard", "zadd", "expire"}
EmptyZ == [s \in {} |-> 0]

\* the clock advances by one second less than the window, or by the window
TickSteps == {RateLimitWindow - 1, RateLimitWindow}

\* the limiter is followed until the entries of the first two seconds have left the window
RLHorizon == RateLimitWindow + 1

RECURSIVE SumCounts(_, _)
SumCounts(f, S) ==
    IF S = {} THEN 0
    ELSE LET s == CHOOSE x \in S : TRUE IN f[s] + SumCounts(f, S \ {s})

MinOf(S) == CHOOSE x \in S : \A y \in S : x <= y

\* ZREMRANGEBYSCORE key min max: both ends inclusive
ZRemRangeByScore(z, min, max) ==
    [s \in {x \in DOMAIN z : ~(min <= x /\ x <= max)} |-> z[s]]

\* ZCARD key
ZCard(z) == SumCounts(z, DOMAIN z)

\* ZADD key score member; the member `${now}-${Math.random()}` is taken to be fresh
ZAdd(z, score) ==
    IF score \in DOMAIN z
    THEN [z EXCEPT ![score] = @ + 1]
    ELSE [s \in DOMAIN z \cup {score} |-> IF s = score THEN 1 ELSE z[s]]

\* ZRANGE key 0 0 WITHSCORES, then the reset time of lines 41-42
ResetTime(z, t) ==
    IF DOMAIN z # {} THEN MinOf(DOMAIN z) + RateLimitWindow ELSE t + RateLimitWindow

\* lines 53-58; a count that is undefined gives remaining: NaN
Allowed(requestCount, reset) ==
    [success |-> TRUE,
     remaining |-> IF requestCount = Undefined THEN NaN
                   ELSE RateLimitRequests - requestCount,
     reset |-> reset, limit |-> RateLimitRequests, error |-> FALSE]

\* lines 45-50
Rejected(reset) ==
    [success |-> FALSE, remaining |-> 0, reset |-> reset,
     limit |-> RateLimitRequests, error |-> FALSE]

RateLimitDecisionOffByOne(requestCount, reset) ==
    IF requestCount # Undefined /\ requestCount > RateLimitRequests
    THEN Rejected(reset)
    ELSE Allowed(requestCount, reset)

\* lines 38 and 44-58: the decision on results[1][1]; undefined >= 60 is false
RateLimitDecision(requestCount, reset) ==
    IF requestCount # Undefined /\ requestCount >= RateLimitRequests
    THEN Rejected(reset)
    ELSE Allowed(requestCount, reset)

\* lines 59-70: the catch block
RateLimitFailOpen(t) ==
    [success |-> TRUE, remaining |-> 1, reset |-> t + FailOpenReset,
     limit |-> RateLimitRequests, error |-> TRUE]

NoResult == [success |-> FALSE, remaining |-> -1, reset |-> -1, limit |-> -1, error |-> FALSE]

IdleProc ==
    [pc |-> "idle", userId |-> "u1", now |-> 0, requestCount |-> Undefined,
     result |-> NoResult, w0 |-> EmptyZ, seq |-> TRUE, failed |-> FALSE]

InFlight(p) == rl[p].pc \in {"purge", "zcard", "zadd", "expire", "zrange"}

\* a key with a time to live is deleted by the store when the time is reached
ExpireKeys(z, e, t) ==
    [u \in Users |-> IF e[u] # NoExpiry /\ t >= e[u] THEN EmptyZ ELSE z[u]]
ExpireTimes(e, t) ==
    [u \in Users |-> IF e[u] # NoExpiry /\ t >= e[u] THEN NoExpiry ELSE e[u]]

\* handler p1 serves account u1, handler p2 any account
ProcUsers(p) == IF p = "p1" THEN {"u1"} ELSE Users

\* call p goes on as rec; a result is kept only in the state its call returns in
SetProc(p, rec) ==
    rl' = [q \in RLProcs |->
             IF q = p THEN rec ELSE IF rl[q].pc = "done" THEN IdleProc ELSE rl[q]]

\* lines 19-35: now is read and the four commands are queued on the pipeline; a handler
\* that holds the result of its last call may call again
RLStart(p, u) ==
    /\ rl[p].pc \in {"idle", "done"}
    /\ u \in ProcUsers(p)
    /\ calls < MaxCalls
    /\ calls' = calls + 1
    /\ rl' = [q \in RLProcs |->
                IF q = p
                THEN [IdleProc EXCEPT !.pc = "purge", !.userId = u, !.now = now,
                        !.seq = ~ \E o \in RLProcs \ {p} : InFlight(o) /\ rl[o].userId = u]
                ELSE IF InFlight(q) /\ rl[q].userId = u
                     THEN [rl[q] EXCEPT !.seq = FALSE]
                     ELSE IF rl[q].pc = "done" THEN IdleProc
                     ELSE rl[q]]
    /\ UNCHANGED <<zset, zexp, admitted, decided, clockVars, dbVars, stVars, gwVars>>

\* line 26, executed by the store; a key left without members is removed
RLPurge(p) ==
    /\ rl[p].pc = "purge"
    /\ LET u == rl[p].userId
           z == ZRemRangeByScore(zset[u], 0, rl[p].now - RateLimitWindow)
       IN /\ zset' = [zset EXCEPT ![u] = z]
          /\ zexp' = [zexp EXCEPT ![u] = IF DOMAIN z = {} THEN NoExpiry ELSE @]
          /\ SetProc(p, [rl[p] EXCEPT !.pc = "zcard", !.w0 = zset[u]])
    /\ UNCHANGED <<admitted, decided, calls, clockVars, dbVars, stVars, gwVars>>

\* line 29
RLCard(p) ==
    /\ rl[p].pc = "zcard"
    /\ SetProc(p, [rl[p] EXCEPT !.pc = "zadd", !.requestCount = ZCard(zset[rl[p].userId])])
    /\ UNCHANGED <<zset, zexp, admitted, decided, calls, clockVars, dbVars, stVars, gwVars>>

\* line 32: the entry is added whatever the count was
RLAdd(p) ==
    /\ rl[p].pc = "zadd"
    /\ zset' = [zset EXCEPT ![rl[p].userId] = ZAdd(@, rl[p].now)]
    /\ SetProc(p, [rl[p] EXCEPT !.pc = "expire"])
    /\ UNCHANGED <<zexp, admitted, decided, calls, clockVars, dbVars, stVars, gwVars>>

\* line 35, the time to live counts from the store's clock; a key that does not exist
\* gets none
RLExpire(p) ==
    /\ rl[p].pc = "expire"
    /\ zexp' = [zexp EXCEPT ![rl[p].userId] =
                   IF DOMAIN zset[rl[p].userId] = {} THEN @ ELSE now + RateLimitWindow]
    /\ SetProc(p, [rl[p] EXCEPT !.pc = "zrange"])
    /\ UNCHANGED <<zset, admitted, decided, calls, clockVars, dbVars, stVars, gwVars>>

\* lines 37-58: the pipeline's replies are in, the oldest entry is read, the result returned
RLRange(p) ==
    /\ rl[p].pc = "zrange"
    /\ LET u == rl[p].userId
           res == RateLimitDecision(rl[p].requestCount, ResetTime(zset[u], rl[p].now))
       IN /\ SetProc(p, [rl[p] EXCEPT !.pc = "done", !.result = res])
          /\ admitted' = IF res.success /\ ~rl[p].failed
                         THEN [admitted EXCEPT ![u] = ZAdd(@, rl[p].now)]
                         ELSE admitted
          /\ decided' = IF res.success /\ ~rl[p].failed
                        THEN [decided EXCEPT ![u] = ZAdd(@, now)]
                        ELSE decided
    /\ UNCHANGED <<zset, zexp, calls, clockVars, dbVars, stVars, gwVars>>

\* the pipeline position after the command at pc
AfterCommand(pc) ==
    CASE pc = "purge" -> "zcard" [] pc = "zcard" -> "zadd" [] pc = "zadd" -> "expire"
      [] pc = "expire" -> "zrange"

\* lines 26-38: the store answers one queued command of the call with an error (a write
\* refused for lack of memory, a read that times out). pipeline.exec() does not reject:
\* the error is the first element of the command's pair in results, which the code never
\* reads, and the command has no effect
RLCmdFail(p) ==
    /\ rl[p].pc \in PipelineCommands
    /\ ~rl[p].failed
    /\ SetProc(p, [rl[p] EXCEPT !.pc = AfterCommand(rl[p].pc), !.failed = TRUE,
                                !.w0 = IF rl[p].pc = "purge" THEN zset[rl[p].userId]
                                       ELSE @])
    /\ UNCHANGED <<zset, zexp, admitted, decided, calls, clockVars, dbVars, stVars, gwVars>>

\* lines 26-41 and 59-70: the store is unreachable for the whole call: every queued
\* command ends in an error, redis.zrange rejects and the catch block runs
RLOutage(p) ==
    /\ rl[p].pc = "purge"
    /\ SetProc(p, [rl[p] EXCEPT !.pc = "done", !.failed = TRUE,
                                !.w0 = zset[rl[p].userId],
                                !.result = RateLimitFailOpen(now)])
    /\ UNCHANGED <<zset, zexp, admitted, decided, calls, clockVars, dbVars, stVars, gwVars>>

\* lines 41 and 59-70: redis.zrange rejects (the connection is lost after the pipeline
\* ran) and the catch block runs
RLFail(p) ==
    /\ rl[p].pc = "zrange"
    /\ SetProc(p, [rl[p] EXCEPT !.pc = "done", !.failed = TRUE,
                                !.result = RateLimitFailOpen(now)])
    /\ UNCHANGED <<zset, zexp, admitted, decided, calls, clockVars, dbVars, stVars, gwVars>>

\* the clock advances by d seconds
Tick(d) ==
    /\ now + d <= RLHorizon
    /\ now' = now + d
    /\ zset' = ExpireKeys(zset, zexp, now + d)
    /\ zexp' = ExpireTimes(zexp, now + d)
    /\ rl' = [q \in RLProcs |-> IF rl[q].pc = "done" THEN IdleProc ELSE rl[q]]
    /\ UNCHANGED <<admitted, decided, calls, dbVars, stVars, gwVars>>

\* windows left by earlier sequential admits: none; 59 admits in second 0; 59 admits in
\* second 0 and one in second 1
Preloads ==
    { [z |-> EmptyZ, now |-> 0, exp |-> NoExpiry],
      [z |-> [s \in {0} |-> RateLimitRequests - 1], now |-> 0, exp |-> RateLimitWindow],
      [z |-> [s \in {0, 1} |-> IF s = 0 THEN RateLimitRequests - 1 ELSE 1],
       now |-> 1, exp |-> 1 + RateLimitWindow] }

----------------------------------------------------------------------------
(* src/app/api/chat/route.ts: constants and state *)

CacheTTL == 3600
WalletCacheTTL == 300

\* lines 13-17 and 164-168, with every deployment name configured
ModelDeployments == {"gpt-4", "gpt-4o", "gpt-3.5-turbo"}

Slots == {"r1", "r2"}
\* what a request may carry: no api-key header, an unknown key, a known key
ApiKeys == {"none", "bad", "k1"}
RequestModels == {"gpt-4o", "nope"}
\* usage.total_tokens of an upstream completion
TokenChoices == {100}
\* what a failed upstream call carries: an HTTP status, or 0 when there was no response
UpstreamFailures == {429, 0}

generateCacheKeyTemperatureDropped(messages, model, temperature, max_tokens) ==
    {<<"messages", messages>>, <<"model", model>>}
        \cup (IF max_tokens = "undefined" THEN {} ELSE {<<"max_tokens", max_tokens>>})

\* lines 193-197: JSON.stringify leaves out the undefined fields; the digest is taken to
\* be one-to-one on the serializations
generateCacheKey(messages, model, temperature, max_tokens) ==
    {<<"messages", messages>>, <<"model", model>>}
        \cup (IF temperature = "undefined" THEN {} ELSE {<<"temperature", temperature>>})
        \cup (IF max_tokens = "undefined" THEN {} ELSE {<<"max_tokens", max_tokens>>})

\* the body of every request of the model: one conversation, no temperature, no max_tokens
KeyOf(model) == generateCacheKey("m1", model, "undefined", "undefined")
CacheKeys == {KeyOf(m) : m \in RequestModels}

\* the fields of a request body that make the cache key, model after defaulting
NoBody == [messages |-> "undefined", model |-> "undefined", temperature |-> "undefined",
           max_tokens |-> "undefined"]
\* a key redis does not hold; body is the request body the stored completion answers
NoEntry == [present |-> FALSE, usage |-> 0, exp |-> 0, body |-> NoBody]
NoSnapshot == [present |-> FALSE, data |-> NoWallet, timestamp |-> 0]
NoResp ==
    [status |-> 0, error |-> "", cost |-> 0, remainingBalance |-> 0, cached |-> FALSE,
     kind |-> "none"]
IdleReq ==
    [pc |-> "idle", h |-> "v2", apiKey |-> "none", messages |-> "m1", model |-> "gpt-4o",
     temperature |-> "undefined", max_tokens |-> "undefined", stream |-> FALSE, path |-> "none", parsed |-> 0, wallet |-> NoWallet,
     rlres |-> NoResult, usage |-> 0, cost |-> 0, short |-> FALSE,
     entries |-> <<>>, upstreamCalled |-> FALSE, aborted |-> FALSE,
     cancelled |-> FALSE, resp |-> NoResp]

GatewayIdle ==
    /\ walletCache = [k \in ApiKeys |-> NoSnapshot]
    /\ respCache = [k \in CacheKeys |-> NoEntry]
    /\ redisWallet = [k \in ApiKeys |-> NoEntry]
    /\ req = [r \in Slots |-> IdleReq]
    /\ started = 0
    /\ hist = [overlap |-> FALSE, served |-> 0, billed |-> 0, reported |-> <<>>]

\* no streaming response is open
StreamIdle ==
    /\ sIn = <<>>
    /\ endpc = [pc |-> "open", cost |-> 0]
    /\ lastChunk = [c |-> -1, l |-> -1, usage |-> 0]
    /\ out = <<>>
    /\ pend = <<>>
    /\ wstate = "open"
    /\ lost = <<>>

StoresInit ==
    /\ \E b \in InitialBalances : dbBalance = [u \in Users |-> b]
    /\ ledger = <<>>

InitRL ==
    /\ StreamIdle
    /\ GatewayIdle
    /\ dbBalance = [u \in Users |-> 0]
    /\ ledger = <<>>
    /\ calls = 0
    /\ \E w \in Preloads :
        /\ now = w.now
        /\ zset = [u \in Users |-> IF u = "u1" THEN w.z ELSE EmptyZ]
        /\ zexp = [u \in Users |-> IF u = "u1" THEN w.exp ELSE NoExpiry]
        /\ admitted = [u \in Users |-> IF u = "u1" THEN w.z ELSE EmptyZ]
        /\ decided = [u \in Users |-> IF u = "u1" THEN w.z ELSE EmptyZ]
    /\ rl = [p \in RLProcs |-> IdleProc]

NextRL ==
    \/ \E p \in RLProcs, u \in Users : RLStart(p, u)
    \/ \E p \in RLProcs : RLPurge(p)
    \/ \E p \in RLProcs : RLCard(p)
    \/ \E p \in RLProcs : RLAdd(p)
    \/ \E p \in RLProcs : RLExpire(p)
    \/ \E p \in RLProcs : RLRange(p)
    \/ \E p \in RLProcs : RLCmdFail(p)
    \/ \E p \in RLProcs : RLOutage(p)
    \/ \E p \in RLProcs : RLFail(p)
    \/ \E d \in TickSteps : Tick(d)

SpecRL == InitRL /\ [][NextRL]_vars

----------------------------------------------------------------------------
(* Claims about the rate limiter, checked under SpecRL *)

\* the entries of window z that are newer than t
CountNewer(z, t) == SumCounts(z, {s \in DOMAIN z : s > t})

\* a call whose store commands all succeeded, that did not overlap another call for its
\* account and ran within the second it read as now
SequentialCall(p) ==
    rl[p].pc = "done" /\ ~rl[p].failed /\ rl[p].seq /\ rl[p].now = now

InWindow(h, T) == SumCounts(h, {s \in DOMAIN h : T - RateLimitWindow < s /\ s <= T})

WindowBound(h) == \A T \in DOMAIN h : InWindow(h, T) <= RateLimitRequests

\* C4: atomicity of the four-step update. Whatever the interleaving of the calls for an
\* account, the calls that the count let through within any trailing 60-second window
\* never number more than 60, whether a call is dated by the now it read or by the
\* moment it returned.
C4_AtMost60PerWindow ==
    \A u \in Users : WindowBound(admitted[u]) \/ WindowBound(decided[u])

\* C5: the rate limiter fails open. A call during which the counter store was unreachable
\* or one of its counter-store operations failed returns allowed = true with
\* remaining = 1 and the warning set.
C5_FailedOperationFailsOpen ==
    \A p \in RLProcs :
        (rl[p].pc = "done" /\ rl[p].failed) =>
            /\ rl[p].result.success
            /\ rl[p].result.remaining = 1
            /\ rl[p].result.error

----------------------------------------------------------------------------
(* src/app/api/chat/route.ts: the streaming branch of POST, lines 339-358 *)

\* A chunk is a sequence of lines, a line is one of:
\*   "json"   data: <a JSON object without usage>
\*   "usage"  data: <a JSON object with a usage record>
\*   "bad"    data: <text that is no JSON>
\*   "done"   data: [DONE]
\*   "head"   the first bytes of a data: frame whose rest is in the next chunk
\*   "uhead"  the same, of a frame that carries a usage record
\*   "tail"   the last bytes of a frame begun in the chunk before
ChunkShapes ==
    { <<"json">>, <<"json", "json">>, <<"usage">>, <<"json", "bad", "json">>,
      <<"usage", "done">>, <<"json", "json", "json">>, <<"head">>, <<"uhead">>,
      <<"tail">> }

\* line.startsWith('data: ')
StartsWithData(line) == line \in {"json", "usage", "bad", "done", "head", "uhead"}

\* JSON.parse(jsonStr) returns a value
ParsesAsJSON(line) == line \in {"json", "usage"}

\* the parsed object of line l of chunk c; usage is its usage.total_tokens, 0 when it has none
Item(line, c, l) == [c |-> c, l |-> l, usage |-> IF line = "usage" THEN 100 ELSE 0]

NoChunk == [c |-> -1, l |-> -1, usage |-> 0]
DoneMark == [c |-> 0, l |-> 0, usage |-> 0]

RECURSIVE ParseFrom(_, _, _)
ParseFrom(chunk, c, l) ==
    IF l > Len(chunk) THEN <<>>
    ELSE IF StartsWithData(chunk[l]) /\ chunk[l] # "done" /\ ParsesAsJSON(chunk[l])
         THEN <<Item(chunk[l], c, l)>> \o ParseFrom(chunk, c, l + 1)
         ELSE ParseFrom(chunk, c, l + 1)

ParseKeepingBad(chunk, c) ==
    [l \in 1..Len(chunk) |-> Item(chunk[l], c, l)]

\* lines 220-238: the objects of the well-formed data: lines of chunk number c, in order
parseSSEResponse(chunk, c) == ParseFrom(chunk, c, 1)

StreamOwner == [userId |-> "u1", model |-> "gpt-4o"]

\* lines 341-349: a 'data' event; the callback runs to its first await
SData(chunk) ==
    /\ endpc.pc = "open"
    /\ Len(sIn) < MaxChunks
    /\ sIn' = Append(sIn, chunk)
    /\ LET parsed == parseSSEResponse(chunk, Len(sIn) + 1)
       IN IF parsed = <<>>
          THEN UNCHANGED <<lastChunk, out, pend>>
          ELSE /\ lastChunk' = Head(parsed)
               /\ out' = Append(out, Head(parsed))
               /\ pend' = Append(pend, [k |-> "data", rest |-> Tail(parsed)])
    /\ UNCHANGED <<endpc, wstate, lost, dbVars, rlVars, clockVars, gwVars>>

\* the oldest unresolved write resolves and what awaited it runs to its next await:
\* lines 345-348 for a 'data' callback, line 357 for the 'end' callback.
\* A write on a writer that close() was called on is refused and the callback throws.
SWriteResolved ==
    /\ pend # <<>>
    /\ LET h == Head(pend)
       IN CASE h.k = "end" ->
                 /\ wstate' = "closing"
                 /\ pend' = Tail(pend)
                 /\ UNCHANGED <<lastChunk, out, lost>>
            [] h.k = "data" /\ h.rest = <<>> ->
                 /\ pend' = Tail(pend)
                 /\ UNCHANGED <<lastChunk, out, lost, wstate>>
            [] h.k = "data" /\ h.rest # <<>> /\ wstate = "open" ->
                 /\ lastChunk' = Head(h.rest)
                 /\ out' = Append(out, Head(h.rest))
                 /\ pend' = Append(Tail(pend), [k |-> "data", rest |-> Tail(h.rest)])
                 /\ UNCHANGED <<lost, wstate>>
            [] h.k = "data" /\ h.rest # <<>> /\ wstate # "open" ->
                 /\ lastChunk' = Head(h.rest)
                 /\ lost' = lost \o h.rest
                 /\ pend' = Tail(pend)
                 /\ UNCHANGED <<out, wstate>>
    /\ UNCHANGED <<sIn, endpc, dbVars, rlVars, clockVars, gwVars>>

\* lines 351-356: the 'end' event; with a usage record in lastChunk the callback first
\* awaits the debit, without one it writes the sentinel at once
SEnd ==
    /\ endpc.pc = "open"
    /\ IF lastChunk.usage # 0
       THEN /\ endpc' = [pc |-> "debit",
                         cost |-> calculateCost(StreamOwner.model, lastChunk.usage)]
            /\ UNCHANGED <<out, pend>>
       ELSE /\ endpc' = [pc |-> "done", cost |-> 0]
            /\ out' = Append(out, DoneMark)
            /\ pend' = Append(pend, [k |-> "end", rest |-> <<>>])
    /\ UNCHANGED <<sIn, lastChunk, wstate, lost, dbVars, rlVars, clockVars, gwVars>>

\* lines 354-356: updateWalletBalance returned, the sentinel is written
SEndDebit ==
    /\ endpc.pc = "debit"
    /\ dbBalance' = BalanceAfter(dbBalance, StreamOwner.userId, -endpc.cost)
    /\ ledger' = LedgerAfter(ledger, StreamOwner.userId, -endpc.cost)
    /\ endpc' = [endpc EXCEPT !.pc = "done"]
    /\ out' = Append(out, DoneMark)
    /\ pend' = Append(pend, [k |-> "end", rest |-> <<>>])
    /\ UNCHANGED <<sIn, lastChunk, wstate, lost, rlVars, clockVars, gwVars>>

\* line 354: updateWalletBalance rejects; the 'end' callback is an async function nobody
\* awaits, so lines 356-357 are never reached and nothing handles the rejection
SEndDebitFail ==
    /\ endpc.pc = "debit"
    /\ endpc' = [endpc EXCEPT !.pc = "failed"]
    /\ UNCHANGED <<sIn, lastChunk, out, pend, wstate, lost, dbVars, rlVars, clockVars,
                   gwVars>>

\* the upstream stream fails (connection lost, or the timeout of line 179): it emits
\* 'error' and no 'end'. Lines 341-358 register listeners for 'data' and 'end' only
SError ==
    /\ endpc.pc = "open"
    /\ endpc' = [endpc EXCEPT !.pc = "errored"]
    /\ UNCHANGED <<sIn, lastChunk, out, pend, wstate, lost, dbVars, rlVars, clockVars,
                   gwVars>>

RLIdle ==
    /\ zset = [u \in Users |-> EmptyZ]
    /\ zexp = [u \in Users |-> NoExpiry]
    /\ rl = [p \in RLProcs |-> IdleProc]
    /\ admitted = [u \in Users |-> EmptyZ]
    /\ decided = [u \in Users |-> EmptyZ]
    /\ calls = 0

\* the state after line 337: the upstream stream is open, nothing has arrived
InitStream ==
    /\ now = 0
    /\ RLIdle
    /\ GatewayIdle
    /\ StoresInit
    /\ StreamIdle

NextStream ==
    \/ \E chunk \in ChunkShapes : SData(chunk)
    \/ SWriteResolved
    \/ SEnd
    \/ SEndDebit
    \/ SEndDebitFail
    \/ SError

SpecStream == InitStream /\ [][NextStream]_vars

\* The event loop runs every callback that is ready: a write the caller takes resolves,
\* the call to the ledger store returns or rejects, and the upstream stream, whose call
\* carries a timeout (line 179), ends or fails.
SpecStreamLive ==
    /\ SpecStream
    /\ WF_vars(SWriteResolved)
    /\ WF_vars(SEndDebit \/ SEndDebitFail)
    /\ WF_vars(SEnd \/ SError)

----------------------------------------------------------------------------
(* Claims about the streaming response, checked under SpecStream *)

RECURSIVE FramesFrom(_, _)
\* the well-formed frames of the chunks from number c on, in arrival order
FramesFrom(chunks, c) ==
    IF c > Len(chunks) THEN <<>>
    ELSE SelectSeq(ParseKeepingBad(chunks[c], c),
                   LAMBDA it : chunks[c][it.l] \in {"json", "usage"})
         \o FramesFrom(chunks, c + 1)

\* the 'end' callback has run to its end and no write is unresolved: the output is closed
StreamFinished == endpc.pc = "done" /\ pend = <<>> /\ wstate = "closing"

LinesOfInput == UNION { {sIn[c][l] : l \in 1..Len(sIn[c])} : c \in 1..Len(sIn) }

\* C6: pass-through order. When every line the upstream sent is a whole well-formed
\* frame, no write is refused, no frame follows the [DONE] sentinel in the output, and
\* once the output is closed it is exactly the frames in arrival order followed by one
\* sentinel.
C6_PassThroughOrder ==
    LinesOfInput \subseteq {"json", "usage"} =>
        /\ lost = <<>>
        /\ \A i \in 1..Len(out) : out[i] = DoneMark => i = Len(out)
        /\ StreamFinished => out = FramesFrom(sIn, 1) \o <<DoneMark>>

\* C7: malformed frames are skipped, not fatal. When the upstream sent a frame that is
\* no JSON among whole well-formed frames, the closed output is exactly the well-formed
\* frames in arrival order followed by the sentinel.
C7_MalformedSkipped ==
    ("bad" \in LinesOfInput /\ LinesOfInput \subseteq {"json", "usage", "bad"}) =>
        (StreamFinished => out = FramesFrom(sIn, 1) \o <<DoneMark>>)

\* C15: streaming settlement. Once the upstream stream has ended and the sentinel was
\* issued, the ledger holds exactly one debit if a frame with a usage record arrived and
\* none otherwise, and the debit is the cost of that usage.
C15_StreamingSettlement ==
    endpc.pc = "done" =>
        /\ Len(ledger) = (IF "usage" \in LinesOfInput THEN 1 ELSE 0)
        /\ \A i \in 1..Len(ledger) :
              ledger[i] = [accountId |-> StreamOwner.userId,
                           delta |-> -calculateCost(StreamOwner.model, 100)]

\* the chunks that arrived are one frame split in two: its first bytes, then its rest
SplitFrameInput ==
    /\ Len(sIn) = 2
    /\ sIn[1] \in {<<"head">>, <<"uhead">>}
    /\ sIn[2] = <<"tail">>

\* C23: frames are parsed per frame, not per chunk. When the upstream sent one
\* well-formed frame whose bytes arrived in two consecutive chunks, the closed output is
\* that frame, once, followed by the sentinel, and when the frame carried a usage record
\* the account was debited for it.
C23_SplitFrameForwarded ==
    (SplitFrameInput /\ StreamFinished) =>
        /\ Len(out) = 2
        /\ out[1] # DoneMark
        /\ out[2] = DoneMark
        /\ sIn[1] = <<"uhead">> => Len(ledger) = 1

\* the upstream stream has ended or failed
UpstreamOver == endpc.pc # "open"

\* C25: streaming responses always terminate. Once the upstream stream has ended or
\* failed, the output eventually holds the [DONE] sentinel and is closed.
C25_StreamingTerminates ==
    UpstreamOver ~> (StreamFinished /\ DoneMark \in {out[i] : i \in 1..Len(out)})
----------------------------------------------------------------------------
(* src/app/api/chat/route.ts: the POST handlers, one step per await.                    *)
(* The file holds two handlers: lines 47-141 (h = "v1": no caches, no streaming) and    *)
(* lines 272-414 (h = "v2").                                                            *)

Busy(r) == req[r].pc \notin {"idle", "done"}

\* lines 277 and 289: the four fields of the request that generateCacheKey is given
Body(q) ==
    [messages |-> q.messages, model |-> q.model, temperature |-> q.temperature,
     max_tokens |-> q.max_tokens]

\* lines 289 and 395: cacheKey
CacheKey(q) == generateCacheKey(q.messages, q.model, q.temperature, q.max_tokens)

\* the handler returns: its local variables are gone
Returned(q) ==
    [q EXCEPT !.pc = "done", !.path = "none", !.parsed = 0, !.wallet = NoWallet,
              !.usage = 0, !.cost = 0, !.cancelled = FALSE]

\* NextResponse.json({error}, {status})
Answer(q, status, error) ==
    [Returned(q) EXCEPT
              !.resp = [status |-> status, error |-> error, cost |-> 0,
                        remainingBalance |-> 0, cached |-> FALSE, kind |-> "error"]]

\* lines 405-413: the catch block of the second handler; status is that of
\* error.response, 0 when the error has none
Caught(q, status, error) ==
    [Answer(q, IF status # 0 THEN status ELSE 500, error) EXCEPT !.aborted = TRUE]

\* lines 128-140: the catch block of the first handler
CaughtV1(q, status, error) ==
    Answer(q, IF status # 0 THEN status ELSE 500, error)

\* lines 122-126, 304-309, 398-402: the success response
Success(q, cost, remainingBalance, cached) ==
    [Returned(q) EXCEPT
              !.resp = [status |-> 200, error |-> "", cost |-> cost,
                        remainingBalance |-> remainingBalance, cached |-> cached,
                        kind |-> "json"]]

\* the handler of slot r goes on as q; a completion answered is counted and its cost
\* added to the costs reported so far, and what a completion that debited reports is
\* recorded. A response is kept in its slot only in the state its handler returns in.
SetReq(r, q) ==
    /\ req' = [o \in Slots |-> IF o = r THEN q ELSE IF Busy(o) THEN req[o] ELSE IdleReq]
    /\ hist' = IF q.pc = "done" /\ q.resp.kind = "json"
                THEN [hist EXCEPT !.served = @ + 1, !.billed = @ + q.resp.cost,
                                  !.reported =
                                      IF q.entries # <<>>
                                      THEN Append(@, [h |-> q.h, cost |-> q.resp.cost,
                                                      remainingBalance |->
                                                          q.resp.remainingBalance])
                                      ELSE @]
                ELSE hist

CachedWalletAnyAge(apiKey) ==
    walletCache[apiKey].present

\* lines 204-207: walletCache holds a snapshot of the key that is younger than the TTL
CachedWalletFresh(apiKey) ==
    /\ walletCache[apiKey].present
    /\ now - walletCache[apiKey].timestamp < WalletCacheTTL

\* lines 243 and 203-209: validateRequest calls getCachedWallet, which returns the
\* snapshot at once or awaits the identity store
LookupWallet(q) ==
    IF CachedWalletFresh(q.apiKey)
    THEN [q EXCEPT !.pc = "rateLimit", !.wallet = walletCache[q.apiKey].data]
    ELSE [q EXCEPT !.pc = "dbFetch"]

StartCacheAlways(r, h, k, m, st) ==
    /\ ~Busy(r)
    /\ r = "r2" => Busy("r1")
    /\ started < MaxRequests
    /\ h = "v1" => ~st
    /\ started' = started + 1
    /\ hist' = [hist EXCEPT !.overlap = @ \/ \E o \in Slots \ {r} : Busy(o)]
    /\ LET q == [IdleReq EXCEPT !.h = h, !.apiKey = k, !.model = m,
                                !.stream = st]
       IN req' = [o \in Slots |->
                    IF o = r
                    THEN IF k = "none" THEN Answer(q, 401, "API key is required")
                         ELSE IF h = "v1" THEN [q EXCEPT !.pc = "v1wallet"]
                         ELSE [q EXCEPT !.pc = "cacheGet"]
                    ELSE IF Busy(o) THEN req[o]
                    ELSE IdleReq]
    /\ UNCHANGED <<walletCache, respCache, redisWallet, clockVars, rlVars, dbVars, stVars>>

\* lines 47-67 and 272-290, 314: the request is parsed and the api-key header checked;
\* a streaming request goes to validateRequest at once. Responses delivered earlier are
\* not kept.
Start(r, h, k, m, st) ==
    /\ ~Busy(r)
    /\ r = "r2" => Busy("r1")
    /\ started < MaxRequests
    /\ h = "v1" => ~st
    /\ started' = started + 1
    /\ hist' = [hist EXCEPT !.overlap = @ \/ \E o \in Slots \ {r} : Busy(o)]
    /\ LET q == [IdleReq EXCEPT !.h = h, !.apiKey = k, !.model = m,
                                !.stream = st]
       IN req' = [o \in Slots |->
                    IF o = r
                    THEN IF k = "none" THEN Answer(q, 401, "API key is required")
                         ELSE IF h = "v1" THEN [q EXCEPT !.pc = "v1wallet"]
                         ELSE IF st THEN LookupWallet(q)
                         ELSE [q EXCEPT !.pc = "cacheGet"]
                    ELSE IF Busy(o) THEN req[o]
                    ELSE IdleReq]
    /\ UNCHANGED <<walletCache, respCache, redisWallet, clockVars, rlVars, dbVars, stVars>>

CacheGetAnswersHit(r) ==
    /\ req[r].pc = "cacheGet"
    /\ LET e == respCache[KeyOf(req[r].model)]
       IN SetReq(r, IF e.present /\ now < e.exp
                    THEN Success(req[r], calculateCost(req[r].model, e.usage), 0, TRUE)
                    ELSE LookupWallet([req[r] EXCEPT !.path = "miss"]))
    /\ UNCHANGED <<walletCache, respCache, redisWallet, started, clockVars, rlVars,
                   dbVars, stVars>>

\* lines 289-294 and 314: redis.get(cacheKey) answers, then validateRequest is called;
\* a key set with SETEX is gone once its time is up
CacheGet(r) ==
    /\ req[r].pc = "cacheGet"
    /\ LET e == respCache[KeyOf(req[r].model)]
       IN SetReq(r, IF e.present /\ now < e.exp
                    THEN LookupWallet([req[r] EXCEPT !.path = "hit", !.parsed = e.usage])
                    ELSE LookupWallet([req[r] EXCEPT !.path = "miss"]))
    /\ UNCHANGED <<walletCache, respCache, redisWallet, started, clockVars, rlVars,
                   dbVars, stVars>>

\* lines 209-216 and 244-246: the identity store answers; a wallet found is cached
DbFetch(r) ==
    /\ req[r].pc = "dbFetch"
    /\ LET w == getWalletByApiKey(req[r].apiKey, dbBalance)
       IN IF w # NoWallet
          THEN /\ walletCache' = [walletCache EXCEPT ![req[r].apiKey] =
                                    [present |-> TRUE, data |-> w, timestamp |-> now]]
               /\ SetReq(r, [req[r] EXCEPT !.pc = "rateLimit", !.wallet = w])
          ELSE /\ SetReq(r, Caught(req[r], 0, "Invalid API key"))
               /\ UNCHANGED walletCache
    /\ UNCHANGED <<respCache, redisWallet, started, clockVars, rlVars, dbVars, stVars>>

\* lines 254-262, then 295-309 on a cache hit and 316 / 368 on a miss
Validated(q, res) ==
    IF ~res.success THEN Caught(q, 0, "Rate limit exceeded")
    ELSE IF q.model \notin ModelDeployments THEN Caught(q, 0, "Invalid model specified")
    ELSE IF q.path = "hit"
         THEN LET cost == calculateCost(q.model, q.parsed)
              IN IF q.wallet.balance < cost
                 THEN Answer([q EXCEPT !.short = TRUE], 402, "Insufficient funds")
                 ELSE Success(q, cost, q.wallet.balance - cost, TRUE)
    ELSE IF q.stream THEN [q EXCEPT !.pc = "upstreamStream"]
    ELSE [q EXCEPT !.pc = "upstream"]

\* lines 70-88 of the first handler
ValidatedV1(q, res) ==
    IF ~res.success THEN Answer(q, 429, "Rate limit exceeded. Please try again later.")
    ELSE IF q.model \notin ModelDeployments THEN Answer(q, 400, "Invalid model specified")
    ELSE [q EXCEPT !.pc = "v1upstream"]

\* lines 71-72 and 249-254: only success of the result is read; of a result that let the
\* request through nothing else is kept
Passed == [NoResult EXCEPT !.success = TRUE]

AfterRateLimit(q, res) ==
    LET kept == IF res.success THEN Passed ELSE res
    IN IF q.h = "v1" THEN ValidatedV1([q EXCEPT !.rlres = kept], res)
       ELSE Validated([q EXCEPT !.rlres = kept], res)

\* how the pipeline of one call may go: every command applied, or ZCARD, the one command
\* whose reply is read (line 38), refused. The refusals of the other commands are followed
\* in SpecRL
PipelineOutcomes == {{}, {"zcard"}}

\* rate-limit.ts lines 26-37 run without another call in between, the commands of f
\* refused: the window as the purge leaves it
WindowPurged(z, t, f) ==
    IF "purge" \in f THEN z ELSE ZRemRangeByScore(z, 0, t - RateLimitWindow)

\* the window after the call
WindowAfterCall(z, t, f) ==
    IF "zadd" \in f THEN WindowPurged(z, t, f) ELSE ZAdd(WindowPurged(z, t, f), t)

\* the expiry time of the key after the call
ExpiryAfterCall(z, e, t, f) ==
    IF DOMAIN WindowAfterCall(z, t, f) = {} THEN NoExpiry
    ELSE IF "expire" \notin f THEN t + RateLimitWindow
    ELSE IF DOMAIN WindowPurged(z, t, f) = {} THEN NoExpiry
    ELSE e

\* rate-limit.ts lines 37-58: the result of the call
ResultOfCall(z, t, f) ==
    RateLimitDecision(IF "zcard" \in f THEN Undefined ELSE ZCard(WindowPurged(z, t, f)),
                      ResetTime(WindowAfterCall(z, t, f), t))

\* lines 71 and 249-252: rateLimit(wallet.userId) returns from its try block, the
\* commands of f refused by the store
CallRateLimit(r, f) ==
    /\ req[r].pc \in {"rateLimit", "v1rateLimit"}
    /\ LET u == req[r].wallet.userId
       IN /\ zset' = [zset EXCEPT ![u] = WindowAfterCall(@, now, f)]
          /\ zexp' = [zexp EXCEPT ![u] = ExpiryAfterCall(zset[u], @, now, f)]
          /\ SetReq(r, AfterRateLimit(req[r], ResultOfCall(zset[u], now, f)))
    /\ UNCHANGED <<rl, admitted, decided, calls, walletCache, respCache, redisWallet,
                   started, clockVars, dbVars, stVars>>

\* lines 71 and 249-252: rateLimit(wallet.userId) returns from its catch block
CallRateLimitFailed(r) ==
    /\ req[r].pc \in {"rateLimit", "v1rateLimit"}
    /\ SetReq(r, AfterRateLimit(req[r], RateLimitFailOpen(now)))
    /\ UNCHANGED <<walletCache, respCache, redisWallet, started, clockVars, rlVars,
                   dbVars, stVars>>

\* lines 370-387: the upstream answers with a completion and its usage
UpstreamCall(r) ==
    /\ req[r].pc = "upstream"
    /\ \E t \in TokenChoices :
        LET cost == calculateCost(req[r].model, t)
        IN SetReq(r, [req[r] EXCEPT !.pc = "debit", !.usage = t, !.upstreamCalled = TRUE,
                                    !.cost = cost, !.cancelled = FALSE,
                                    !.short = req[r].wallet.balance < cost])
    /\ UNCHANGED <<walletCache, respCache, redisWallet, started, clockVars, rlVars,
                   dbVars, stVars>>

\* line 390: updateWalletBalance(wallet.userId, -cost, ...)
Debit(r) ==
    /\ req[r].pc = "debit"
    /\ dbBalance' = BalanceAfter(dbBalance, req[r].wallet.userId, -req[r].cost)
    /\ ledger' = LedgerAfter(ledger, req[r].wallet.userId, -req[r].cost)
    /\ SetReq(r, [req[r] EXCEPT !.pc = "setexWallet",
                                !.entries = Append(@, -req[r].cost)])
    /\ UNCHANGED <<walletCache, respCache, redisWallet, started, clockVars, rlVars, stVars>>

\* line 391: redis.setex(`wallet:${apiKey}`, WALLET_CACHE_TTL, ...)
SetexWallet(r) ==
    /\ req[r].pc = "setexWallet"
    /\ redisWallet' = [redisWallet EXCEPT ![req[r].apiKey] =
                          [present |-> TRUE, usage |-> req[r].wallet.balance - req[r].cost,
                           exp |-> now + WalletCacheTTL, body |-> NoBody]]
    /\ SetReq(r, [req[r] EXCEPT !.pc = "setexCache"])
    /\ UNCHANGED <<walletCache, respCache, started, clockVars, rlVars, dbVars, stVars>>

\* lines 395-402: the completion is cached and the response returned
SetexCache(r) ==
    /\ req[r].pc = "setexCache"
    /\ respCache' = [respCache EXCEPT ![KeyOf(req[r].model)] =
                        [present |-> TRUE, usage |-> req[r].usage, exp |-> now + CacheTTL,
                         body |-> Body(req[r])]]
    /\ SetReq(r, Success(req[r], req[r].cost, req[r].wallet.balance - req[r].cost, FALSE))
    /\ UNCHANGED <<walletCache, redisWallet, started, clockVars, rlVars, dbVars, stVars>>

\* lines 322-337 and 360-367: the upstream stream is open and handed to the caller; its
\* callbacks are the steps of SpecStream
UpstreamStream(r) ==
    /\ req[r].pc = "upstreamStream"
    /\ SetReq(r, [Returned(req[r]) EXCEPT !.upstreamCalled = TRUE,
                       !.resp = [NoResp EXCEPT !.status = 200, !.kind = "stream"]])
    /\ UNCHANGED <<walletCache, respCache, redisWallet, started, clockVars, rlVars,
                   dbVars, stVars>>

\* axios.post rejects: lines 130-134 and 405-413
UpstreamFail(r) ==
    /\ req[r].pc \in {"upstream", "upstreamStream", "v1upstream"}
    /\ \E f \in UpstreamFailures :
        LET q == [req[r] EXCEPT !.upstreamCalled = TRUE]
        IN SetReq(r, IF q.h = "v1" THEN CaughtV1(q, f, "upstream error")
                     ELSE Caught(q, f, "upstream error"))
    /\ UNCHANGED <<walletCache, respCache, redisWallet, started, clockVars, rlVars,
                   dbVars, stVars>>

\* the caller disconnects while the upstream call is awaited: request.signal is aborted,
\* and nothing listens to it. The controller of lines 273-274, whose signal the upstream
\* call carries, is aborted in the catch block only (line 406). cancelled is kept while
\* the call is open
ClientDisconnect(r) ==
    /\ req[r].pc \in {"upstream", "upstreamStream", "v1upstream"}
    /\ ~req[r].cancelled
    /\ SetReq(r, [req[r] EXCEPT !.cancelled = TRUE])
    /\ UNCHANGED <<walletCache, respCache, redisWallet, started, clockVars, rlVars,
                   dbVars, stVars>>

\* what the response says when a store call rejected
StoreErrors == {"store error", "cache read error"}

\* a call to redis (line 290: the read of the response cache) or to the identity / ledger
\* store rejects; nothing was written
StoreFail(r) ==
    /\ req[r].pc \in {"cacheGet", "dbFetch", "debit", "setexWallet", "setexCache",
                       "v1wallet", "v1debit"}
    /\ LET error == IF req[r].pc = "cacheGet" THEN "cache read error" ELSE "store error"
       IN SetReq(r, IF req[r].h = "v1" THEN CaughtV1(req[r], 0, error)
                    ELSE Caught(req[r], 0, error))
    /\ UNCHANGED <<walletCache, respCache, redisWallet, started, clockVars, rlVars,
                   dbVars, stVars>>

\* lines 61-67 of the first handler
V1Wallet(r) ==
    /\ req[r].pc = "v1wallet"
    /\ LET w == getWalletByApiKey(req[r].apiKey, dbBalance)
       IN SetReq(r, IF w = NoWallet THEN Answer(req[r], 401, "Invalid API key")
                    ELSE [req[r] EXCEPT !.pc = "v1rateLimit", !.wallet = w])
    /\ UNCHANGED <<walletCache, respCache, redisWallet, started, clockVars, rlVars,
                   dbVars, stVars>>

\* lines 90-117 of the first handler
V1Upstream(r) ==
    /\ req[r].pc = "v1upstream"
    /\ \E t \in TokenChoices :
        LET cost == calculateCost(req[r].model, t)
            q == [req[r] EXCEPT !.usage = t, !.upstreamCalled = TRUE, !.cost = cost,
                                !.cancelled = FALSE,
                                !.short = req[r].wallet.balance < cost]
        IN SetReq(r, IF q.wallet.balance < cost
                     THEN Answer(q, 402, "Insufficient funds")
                     ELSE [q EXCEPT !.pc = "v1debit"])
    /\ UNCHANGED <<walletCache, respCache, redisWallet, started, clockVars, rlVars,
                   dbVars, stVars>>

V1DebitReportsLedger(r) ==
    /\ req[r].pc = "v1debit"
    /\ dbBalance' = BalanceAfter(dbBalance, req[r].wallet.userId, -req[r].cost)
    /\ ledger' = LedgerAfter(ledger, req[r].wallet.userId, -req[r].cost)
    /\ SetReq(r, Success([req[r] EXCEPT !.entries = Append(@, -req[r].cost)],
                          req[r].cost, dbBalance'[req[r].wallet.userId], FALSE))
    /\ UNCHANGED <<walletCache, respCache, redisWallet, started, clockVars, rlVars, stVars>>

\* lines 120-126 of the first handler
V1Debit(r) ==
    /\ req[r].pc = "v1debit"
    /\ dbBalance' = BalanceAfter(dbBalance, req[r].wallet.userId, -req[r].cost)
    /\ ledger' = LedgerAfter(ledger, req[r].wallet.userId, -req[r].cost)
    /\ SetReq(r, Success([req[r] EXCEPT !.entries = Append(@, -req[r].cost)],
                          req[r].cost, req[r].wallet.balance - req[r].cost, FALSE))
    /\ UNCHANGED <<walletCache, respCache, redisWallet, started, clockVars, rlVars, stVars>>

\* the clock advances to just before, or to, the end of the wallet TTL
GatewayTickSteps == {WalletCacheTTL - 1, WalletCacheTTL}

\* the gateway is followed for one period of the wallet TTL
GatewayHorizon == WalletCacheTTL

\* time passes between requests: a step of minutes does not fit in a request, whose
\* upstream call times out after 30 s (line 179). Responses delivered earlier are not
\* kept.
GatewayTick(d) ==
    /\ \A r \in Slots : ~Busy(r)
    /\ now + d <= GatewayHorizon
    /\ now' = now + d
    /\ zset' = ExpireKeys(zset, zexp, now + d)
    /\ zexp' = ExpireTimes(zexp, now + d)
    /\ req' = [r \in Slots |-> IdleReq]
    /\ UNCHANGED <<rl, admitted, decided, calls, walletCache, respCache, redisWallet,
                   started, hist, dbVars, stVars>>

\* the window of account u1 left by earlier requests: none, or the 60 of second 0
GatewayWindows ==
    { [z |-> EmptyZ, exp |-> NoExpiry],
      [z |-> [s \in {0} |-> RateLimitRequests], exp |-> RateLimitWindow] }

Init ==
    /\ now = 0
    /\ \E w \in GatewayWindows :
        /\ zset = [u \in Users |-> IF u = "u1" THEN w.z ELSE EmptyZ]
        /\ zexp = [u \in Users |-> IF u = "u1" THEN w.exp ELSE NoExpiry]
    /\ rl = [p \in RLProcs |-> IdleProc]
    /\ admitted = [u \in Users |-> EmptyZ]
    /\ decided = [u \in Users |-> EmptyZ]
    /\ calls = 0
    /\ StoresInit
    /\ StreamIdle
    /\ GatewayIdle

Next ==
    \/ \E r \in Slots, h \in {"v1", "v2"}, k \in ApiKeys, m \in RequestModels,
          st \in BOOLEAN : Start(r, h, k, m, st)
    \/ \E r \in Slots : CacheGet(r)
    \/ \E r \in Slots : DbFetch(r)
    \/ \E r \in Slots, f \in PipelineOutcomes : CallRateLimit(r, f)
    \/ \E r \in Slots : CallRateLimitFailed(r)
    \/ \E r \in Slots : UpstreamCall(r)
    \/ \E r \in Slots : Debit(r)
    \/ \E r \in Slots : SetexWallet(r)
    \/ \E r \in Slots : SetexCache(r)
    \/ \E r \in Slots : UpstreamStream(r)
    \/ \E r \in Slots : UpstreamFail(r)
    \/ \E r \in Slots : ClientDisconnect(r)
    \/ \E r \in Slots : StoreFail(r)
    \/ \E r \in Slots : V1Wallet(r)
    \/ \E r \in Slots : V1Upstream(r)
    \/ \E r \in Slots : V1Debit(r)
    \/ \E d \in GatewayTickSteps : GatewayTick(d)

Spec == Init /\ [][Next]_vars

\* an account that can pay for one completion of 100 tokens and not for two: 0.060
TightBalances == {60}

\* Init with the account balances drawn from TightBalances
InitDoubleSpend ==
    /\ now = 0
    /\ \E w \in GatewayWindows :
        /\ zset = [u \in Users |-> IF u = "u1" THEN w.z ELSE EmptyZ]
        /\ zexp = [u \in Users |-> IF u = "u1" THEN w.exp ELSE NoExpiry]
    /\ rl = [p \in RLProcs |-> IdleProc]
    /\ admitted = [u \in Users |-> EmptyZ]
    /\ decided = [u \in Users |-> EmptyZ]
    /\ calls = 0
    /\ \E b \in TightBalances : dbBalance = [u \in Users |-> b]
    /\ ledger = <<>>
    /\ StreamIdle
    /\ GatewayIdle

SpecDoubleSpend == InitDoubleSpend /\ [][Next]_vars

----------------------------------------------------------------------------
(* src/app/api/chat/route.ts: the cache key. Requests with bodies of every shape go     *)
(* through the cache read and the cache write, one at a time.                           *)

\* what the body of a request may carry; "undefined" is an absent field
BodyMessages == {"m1", "m2"}
BodyModels == {"undefined", "gpt-4o", "gpt-4"}
BodyTemperatures == {"undefined", "0", "0.7"}
BodyMaxTokens == {"undefined", "16"}

\* line 277: model = "gpt-4o" when the body has none
DefaultModel(model) == IF model = "undefined" THEN "gpt-4o" ELSE model

\* the keys the requests of SpecKey can make
AllCacheKeys ==
    { generateCacheKey(ms, DefaultModel(m), t, mt) :
        ms \in BodyMessages, m \in BodyModels, t \in BodyTemperatures, mt \in BodyMaxTokens }

\* lines 277-289: a non-streaming request with the given body arrives
KeyStart(ms, m, t, mt) ==
    /\ req["r1"].pc \in {"idle", "done"}
    /\ started < MaxRequests
    /\ started' = started + 1
    /\ req' = [req EXCEPT !["r1"] =
                 [IdleReq EXCEPT !.pc = "cacheGet", !.messages = ms,
                                 !.model = DefaultModel(m), !.temperature = t,
                                 !.max_tokens = mt]]
    /\ UNCHANGED <<walletCache, respCache, redisWallet, hist, clockVars, rlVars, dbVars,
                   stVars>>

\* lines 289-310: redis.get(cacheKey); a hit is answered from the cache
KeyGet ==
    /\ req["r1"].pc = "cacheGet"
    /\ LET e == respCache[CacheKey(req["r1"])]
       IN req' = [req EXCEPT !["r1"] =
                    IF e.present /\ now < e.exp
                    THEN [@ EXCEPT !.pc = "done", !.path = "hit", !.parsed = e.usage]
                    ELSE [@ EXCEPT !.pc = "setexCache", !.path = "miss"]]
    /\ UNCHANGED <<walletCache, respCache, redisWallet, started, hist, clockVars, rlVars,
                   dbVars, stVars>>

\* lines 395-396: the completion of the live call is stored under cacheKey
KeyPut ==
    /\ req["r1"].pc = "setexCache"
    /\ respCache' = [respCache EXCEPT ![CacheKey(req["r1"])] =
                        [present |-> TRUE, usage |-> 100, exp |-> now + CacheTTL,
                         body |-> Body(req["r1"])]]
    /\ req' = [req EXCEPT !["r1"].pc = "done"]
    /\ UNCHANGED <<walletCache, redisWallet, started, hist, clockVars, rlVars, dbVars,
                   stVars>>

InitKey ==
    /\ now = 0
    /\ RLIdle
    /\ StoresInit
    /\ StreamIdle
    /\ walletCache = [k \in ApiKeys |-> NoSnapshot]
    /\ respCache = [k \in AllCacheKeys |-> NoEntry]
    /\ redisWallet = [k \in ApiKeys |-> NoEntry]
    /\ req = [r \in Slots |-> IdleReq]
    /\ started = 0
    /\ hist = [overlap |-> FALSE, served |-> 0, billed |-> 0, reported |-> <<>>]

NextKey ==
    \/ \E ms \in BodyMessages, m \in BodyModels, t \in BodyTemperatures,
          mt \in BodyMaxTokens : KeyStart(ms, m, t, mt)
    \/ KeyGet
    \/ KeyPut

SpecKey == InitKey /\ [][NextKey]_vars

----------------------------------------------------------------------------
(* src/app/api/chat/route.ts: getCachedWallet, lines 199-217. Lookups for known and     *)
(* unknown keys, with time passing and the balance of the account changing in between.  *)

\* the clock advances by a second, or to just before the end of the wallet TTL
WalletTickSteps == {1, WalletCacheTTL - 1}

\* lookups are followed until the wallet TTL has passed
WalletHorizon == WalletCacheTTL + 1

\* lines 243 and 203-209: validateRequest calls getCachedWallet(apiKey)
WalletGet(r, k) ==
    /\ ~Busy(r)
    /\ started < MaxRequests
    /\ started' = started + 1
    /\ req' = [o \in Slots |->
                 IF o = r THEN LookupWallet([IdleReq EXCEPT !.apiKey = k])
                 ELSE IF Busy(o) THEN req[o]
                 ELSE IdleReq]
    /\ UNCHANGED <<walletCache, respCache, redisWallet, hist, clockVars, rlVars, dbVars,
                   stVars>>

\* lines 243-244: validateRequest has the wallet and goes on
WalletGot(r) ==
    /\ req[r].pc = "rateLimit"
    /\ SetReq(r, Returned(req[r]))
    /\ UNCHANGED <<walletCache, respCache, redisWallet, started, clockVars, rlVars,
                   dbVars, stVars>>

\* lines 120 and 390: the debit of a completion reaches the ledger store
WalletSpent ==
    /\ Len(ledger) < MaxRequests
    /\ dbBalance' = BalanceAfter(dbBalance, "u1", -calculateCost("gpt-4o", 100))
    /\ ledger' = LedgerAfter(ledger, "u1", -calculateCost("gpt-4o", 100))
    /\ UNCHANGED <<clockVars, rlVars, stVars, gwVars>>

\* time passes between requests: up to just before the end of the wallet TTL, and from
\* there second by second
WalletTick(d) ==
    /\ \A r \in Slots : ~Busy(r)
    /\ now + d <= WalletHorizon
    /\ d = 1 => now >= WalletCacheTTL - 1
    /\ now' = now + d
    /\ UNCHANGED <<rlVars, dbVars, stVars, gwVars>>

InitWallet ==
    /\ now = 0
    /\ RLIdle
    /\ StoresInit
    /\ StreamIdle
    /\ GatewayIdle

NextWallet ==
    \/ \E r \in Slots, k \in ApiKeys \ {"none"} : WalletGet(r, k)
    \/ \E r \in Slots : DbFetch(r)
    \/ \E r \in Slots : WalletGot(r)
    \/ WalletSpent
    \/ \E d \in WalletTickSteps : WalletTick(d)

SpecWallet == InitWallet /\ [][NextWallet]_vars

----------------------------------------------------------------------------
(* Claims about the POST handlers, checked under Spec *)

\* the handler of slot r has just returned its response
Done(r) == req[r].pc = "done"

\* the handler of slot r has just answered with a completion (live or cached)
Served(r) == Done(r) /\ req[r].resp.kind = "json"

\* no two requests have overlapped so far
Sequential == ~hist.overlap

RECURSIVE SumDeltas(_, _)
\* the sum of the deltas the ledger holds for account u
SumDeltas(led, u) ==
    IF led = <<>> THEN 0
    ELSE (IF Head(led).accountId = u THEN Head(led).delta ELSE 0) + SumDeltas(Tail(led), u)

\* the balance account u started with
StartingBalance(u) == dbBalance[u] - SumDeltas(ledger, u)

\* what a wallet lookup for the key returns at this moment (lines 203-217)
WalletRead(apiKey) ==
    IF CachedWalletFresh(apiKey) THEN walletCache[apiKey].data
    ELSE getWalletByApiKey(apiKey, dbBalance)

\* C1: cache hit still bills. A request answered from the response cache (cached: true)
\* has written exactly one ledger transaction, whose delta is minus the cost of the
\* cached usage, the cost it reports.
C1_CacheHitBills ==
    \A r \in Slots :
        (Done(r) /\ req[r].resp.cached) =>
            /\ req[r].resp.cost =
                  calculateCost(req[r].model, respCache[KeyOf(req[r].model)].usage)
            /\ req[r].entries = << -req[r].resp.cost >>

\* C2: insufficient funds never debits. A non-streaming request whose wallet snapshot is
\* lower than the cost of its usage writes no ledger transaction and, unless a store call
\* failed, ends with status 402.
C2_InsufficientFundsNeverDebits ==
    \A r \in Slots :
        (~req[r].stream /\ req[r].short) =>
            /\ req[r].entries = <<>>
            /\ (Done(r) /\ req[r].resp.error \notin StoreErrors) => req[r].resp.status = 402

\* C8: write-back on debit. When a request that debited the account has returned its
\* completion, and no request overlapped another, the snapshot a lookup for the same API
\* key returns at that moment (within the wallet TTL: the cached one) carries the
\* post-debit balance of the ledger store.
C8_WriteBackOnDebit ==
    \A r \in Slots :
        (Served(r) /\ req[r].entries # <<>> /\ Sequential) =>
            WalletRead(req[r].apiKey).balance = dbBalance[KeyOwner[req[r].apiKey]]

\* C9: the reported balance tracks the ledger. In a run of requests that never overlap
\* and that were all answered with a completion (live or cached), the remainingBalance of
\* each response is the starting balance of the account minus the costs of the
\* completions up to and including it, and is the balance of the ledger store.
C9_ReportedBalanceTracksLedger ==
    \A r \in Slots :
        (Served(r) /\ Sequential /\ hist.served = started) =>
            LET u == KeyOwner[req[r].apiKey]
            IN /\ req[r].resp.remainingBalance = StartingBalance(u) - hist.billed
               /\ req[r].resp.remainingBalance = dbBalance[u]

\* C10: unauthorized outcome. A request without an API key, or with a key the identity
\* store does not know, is answered with status 401 unless a store call failed, and has
\* made no upstream call and written no ledger transaction.
C10_UnauthorizedIs401 ==
    \A r \in Slots :
        (Done(r) /\ req[r].apiKey \notin DOMAIN KeyOwner) =>
            /\ req[r].resp.error \notin StoreErrors => req[r].resp.status = 401
            /\ ~req[r].upstreamCalled
            /\ req[r].entries = <<>>

\* C11: rate-limited outcome. A request whose rateLimit call returned success: false is
\* answered with status 429, has made no upstream call, is not answered with a cached
\* completion and has written no ledger transaction.
C11_RateLimitedIs429 ==
    \A r \in Slots :
        (Done(r) /\ req[r].rlres # NoResult /\ ~req[r].rlres.success) =>
            /\ req[r].resp.status = 429
            /\ ~req[r].upstreamCalled
            /\ req[r].resp.kind # "json"
            /\ req[r].entries = <<>>

\* C12: invalid model outcome. A request whose model has no entry in MODEL_DEPLOYMENTS
\* never calls the upstream provider and, once its wallet is resolved and the rate
\* limiter let it through, is answered with status 400.
C12_InvalidModelIs400 ==
    \A r \in Slots :
        (Done(r) /\ req[r].model \notin ModelDeployments) =>
            /\ ~req[r].upstreamCalled
            /\ req[r].rlres.success => req[r].resp.status = 400

\* C13: cache-store failures are non-fatal. No request ends in a failure response because
\* its read of the response cache failed: the failure is treated as a miss.
C13_CacheFailureNonFatal ==
    \A r \in Slots : Done(r) => req[r].resp.error # "cache read error"

\* C14: cancellation propagates. The upstream call of a request whose caller disconnected
\* while the call was open does not run to completion: it delivers no usage to the
\* handler.
C14_CancelAbortsUpstream ==
    [][\A r \in Slots : req[r].cancelled => req'[r].usage = 0]_vars

C17_StreamingBypassesCache ==
    /\ [](\A r \in Slots :
            req[r].stream =>
                /\ req[r].pc \notin {"cacheGet", "setexCache"}
                /\ req[r].path = "none"
                /\ ~req[r].resp.cached)
    /\ [][\A r \in Slots :
            (req'[r].stream /\ req'[r] # req[r]) => respCache' = respCache]_vars

\* C17 witness: a streaming request got its stream while the response cache held an entry
\* for its body
C17_WitnessStreamBesideEntry ==
    \E r \in Slots :
        /\ Done(r) /\ req[r].stream /\ req[r].resp.kind = "stream"
        /\ respCache[KeyOf(req[r].model)].present
        /\ now < respCache[KeyOf(req[r].model)].exp

\* C18: fingerprint determinism and separation. The cache key of a request is the key of
\* a stored completion exactly when the request that stored it had the same messages,
\* model (after defaulting), temperature and max_tokens; so a key read for a request
\* holds only a completion stored for the same four values.
C18_FingerprintSeparates ==
    \A k \in DOMAIN respCache :
        (req["r1"].pc \in {"cacheGet", "setexCache"} /\ respCache[k].present) =>
            (k = CacheKey(req["r1"]) <=> respCache[k].body = Body(req["r1"]))

\* C18 witness: a request with a numeric temperature looks up its key while the cache
\* holds the completion of the same request without temperature
C18_WitnessTemperatureAbsent ==
    \E k \in DOMAIN respCache :
        /\ req["r1"].pc = "cacheGet"
        /\ respCache[k].present
        /\ req["r1"].temperature = "0"
        /\ respCache[k].body = [Body(req["r1"]) EXCEPT !.temperature = "undefined"]

\* the completions that debited reported the same balance after reading the same one
SameSnapshot(i, j) ==
    /\ hist.reported[i].remainingBalance = hist.reported[j].remainingBalance
    /\ hist.reported[i].cost = hist.reported[j].cost

\* C21: the double-spend window. No lock is held and the balance is not read again
\* between the sufficiency check and the debit: the debit of a request that reached it
\* lands whatever the balance of the ledger store has become, and the first handler
\* reports the balance it read minus the cost. Hence whenever two completions that
\* debited the account report the same remainingBalance, the ledger holds both debits
\* and the balance of the ledger store is lower than what both reported.
C21_DoubleSpendWindow ==
    /\ [](\A i, j \in 1..Len(hist.reported) :
            (i < j /\ SameSnapshot(i, j)) =>
                /\ Len(ledger) >= 2
                /\ dbBalance["u1"] < hist.reported[i].remainingBalance)
    /\ [][\A r \in Slots :
            (/\ req[r].pc \in {"debit", "v1debit"}
             /\ req'[r].pc # req[r].pc
             /\ req'[r].resp.error \notin StoreErrors) =>
                LET u == req[r].wallet.userId
                IN /\ ledger' = LedgerAfter(ledger, u, -req[r].cost)
                   /\ dbBalance'[u] = dbBalance[u] - req[r].cost
                   /\ req[r].pc = "v1debit" =>
                         /\ req'[r].resp.status = 200
                         /\ req'[r].resp.remainingBalance =
                                req[r].wallet.balance - req[r].cost]_vars

\* two overlapping requests of the first handler both read the starting balance, both
\* passed the sufficiency check (the balance covered the cost) and both debited: the
\* balance of the ledger store is lower than what either reported, and negative
C21_WitnessBothDebitsLand ==
    /\ hist.overlap
    /\ Len(hist.reported) = 2
    /\ SameSnapshot(1, 2)
    /\ \A i \in 1..2 :
          /\ hist.reported[i].h = "v1"
          /\ hist.reported[i].remainingBalance + hist.reported[i].cost =
                StartingBalance("u1")
          /\ hist.reported[i].remainingBalance >= 0
          /\ dbBalance["u1"] < hist.reported[i].remainingBalance
    /\ Len(ledger) = 2
    /\ dbBalance["u1"] < 0

\* C24: no debit on a failed request. A non-streaming request writes at most one ledger
\* transaction, and one that was answered with an error response has written none.
C24_NoDebitOnFailure ==
    \A r \in Slots :
        ~req[r].stream =>
            /\ Len(req[r].entries) <= 1
            /\ (Done(r) /\ req[r].resp.kind = "error") => req[r].entries = <<>>

----------------------------------------------------------------------------
(* Further claims about the rate limiter, checked under SpecRL *)

\* C19: a rejected admit does not consume quota. After a call that no other call
\* overlapped the window holds at most 60 entries, and after a rejected one it holds what
\* the purge left and no entry of this call.
C19_RejectedAddsNoEntry ==
    \A p \in RLProcs :
        SequentialCall(p) =>
            /\ ZCard(zset[rl[p].userId]) <= RateLimitRequests
            /\ ~rl[p].result.success =>
                  zset[rl[p].userId] =
                      ZRemRangeByScore(rl[p].w0, 0, rl[p].now - RateLimitWindow)

\* C20: remaining quota. A call that no other call overlapped returns, when allowed,
\* remaining = 60 - count - 1 for the count of entries the purge left, and remaining = 0
\* when rejected.
C20_RemainingAfterThisCall ==
    \A p \in RLProcs :
        SequentialCall(p) =>
            rl[p].result.remaining =
                IF rl[p].result.success
                THEN RateLimitRequests
                        - CountNewer(rl[p].w0, rl[p].now - RateLimitWindow) - 1
                ELSE 0

----------------------------------------------------------------------------
(* Claims about the wallet snapshot cache, checked under SpecWallet *)

\* the age of the snapshot held for the key
SnapshotAge(k) == now - walletCache[k].timestamp

\* C22: wallet snapshot freshness. A lookup is answered from walletCache only with a
\* snapshot that is present and no older than the TTL, and then with that snapshot; a
\* lookup that finds a snapshot older than the TTL queries the identity store; when the
\* store answers with a wallet, the snapshot of the key becomes exactly that wallet with
\* the time of the answer, and when it answers not found, walletCache is left as it
\* was; no snapshot ever holds a not-found result.
C22_SnapshotFreshness ==
    /\ [](\A k \in ApiKeys : walletCache[k].present => walletCache[k].data # NoWallet)
    /\ [][\A r \in Slots :
            LET k == req'[r].apiKey
            IN /\ (~Busy(r) /\ req'[r].pc = "rateLimit") =>
                     /\ walletCache[k].present
                     /\ SnapshotAge(k) <= WalletCacheTTL
                     /\ req'[r].wallet = walletCache[k].data
               /\ (~Busy(r) /\ Busy(r)' /\ walletCache[k].present
                      /\ SnapshotAge(k) > WalletCacheTTL) =>
                     req'[r].pc = "dbFetch"
               /\ (req[r].pc = "dbFetch" /\ req'[r].pc # "dbFetch") =>
                     LET w == getWalletByApiKey(k, dbBalance)
                     IN IF w # NoWallet
                        THEN /\ walletCache'[k] =
                                   [present |-> TRUE, data |-> w, timestamp |-> now]
                             /\ req'[r].wallet = w
                        ELSE walletCache' = walletCache]_vars

\* a lookup found a snapshot older than the TTL, whose balance is no longer that of the
\* ledger store, and is querying the identity store
C22_WitnessExpiredRefetched ==
    \E r \in Slots :
        LET k == req[r].apiKey
        IN /\ req[r].pc = "dbFetch"
           /\ walletCache[k].present
           /\ SnapshotAge(k) > WalletCacheTTL
           /\ walletCache[k].data.balance # dbBalance[KeyOwner[k]]

====
